---- MODULE Spec2Model ----
(***************************************************************************)
(* A model of curl_cffi/requests/session.py: the Session object, its one   *)
(* transport handle (self.curl) and Session.request().                     *)
(*                                                                         *)
(* Strings and byte strings are sequences of tokens (a token is a letter   *)
(* or an indivisible run of characters), so that str.lower, str.startswith *)
(* and f-string formatting are computed as the code computes them.         *)
(* "Content-Type" is <<"C","ontent-","T","ype">>; "content-type" is        *)
(* <<"c","ontent-","t","ype">>.  An Optional[...] argument is a sequence   *)
(* of length at most one: <<>> is None and <<x>> is the value x.           *)
(***************************************************************************)
EXTENDS Integers, Sequences, FiniteSets, TLC

VARIABLES
    session,   \* the Session's attributes (session.py:116-126)
    curl,      \* self.curl: the options in force on the transport handle
    closed,    \* self.curl.close() has been invoked
    scope,     \* position of a `with Session() as s:` statement
    call,      \* the last request() call: arguments, outcome, response
    pure,      \* input and result of a helper function applied on its own
    run        \* the request() calls in flight, step by step, and the
               \* BytesIO sinks they created

vars == <<session, curl, closed, scope, call, pure, run>>

None == <<>>

Some(x) == <<x>>

\* Python truthiness of an Optional value whose payload is a sequence,
\* a mapping or a string: None and the empty payload are false.
Truthy(o) == o # None /\ o[1] # <<>>

-----------------------------------------------------------------------------
(* str helpers *)

\* str.lower on one token: only the single capital letters have a lower form.
LowerChar(ch) ==
    CASE ch = "C" -> "c"
      [] ch = "T" -> "t"
      [] ch = "A" -> "a"
      [] ch = "S" -> "s"
      [] OTHER -> ch

\* str.lower
Lower(s) == [i \in 1..Len(s) |-> LowerChar(s[i])]

\* str.startswith
StartsWith(s, prefix) ==
    /\ Len(prefix) <= Len(s)
    /\ SubSeq(s, 1, Len(prefix)) = prefix

\* bytes.strip() is empty: the line holds white space only
IsBlank(s) == \A i \in 1..Len(s) : s[i] = " "

\* the f-string f"{key}: {value}"
FormatLine(key, value) == key \o <<":", " ">> \o value

\* sub occurs in s as a contiguous run
Contains(s, sub) ==
    \E i \in 0..(Len(s) - Len(sub)) : SubSeq(s, i + 1, i + Len(sub)) = sub

\* the header name of a line: what precedes its first ":"
RECURSIVE NameOf(_)
NameOf(line) ==
    IF line = <<>> \/ Head(line) = ":" THEN <<>>
    ELSE <<Head(line)>> \o NameOf(Tail(line))

ContentType == <<"C", "ontent-", "T", "ype">>

AppJson == <<"application/json">>

AppForm == <<"application/x-www-form-urlencoded">>

-----------------------------------------------------------------------------
(* _update_header_line, session.py:76-82 *)

\* index of the first line the loop's test accepts, 0 when the loop ends
\* without break
RECURSIVE FirstMatch(_, _, _)
FirstMatch(header_lines, key, idx) ==
    IF idx > Len(header_lines) THEN 0
    ELSE IF StartsWith(Lower(header_lines[idx]), key \o <<":">>) THEN idx
    ELSE FirstMatch(header_lines, key, idx + 1)

\* the list after _update_header_line(header_lines, key, value)
_update_header_line(header_lines, key, value) ==
    LET idx == FirstMatch(header_lines, key, 1)
    IN  IF idx # 0
        THEN [header_lines EXCEPT ![idx] = FormatLine(key, value)]
        ELSE Append(header_lines, FormatLine(key, value))

-----------------------------------------------------------------------------
(* BrowserType, session.py:15-28 *)

BrowserType ==
    { <<"edge99">>, <<"edge101">>, <<"chrome99">>, <<"chrome100">>,
      <<"chrome101">>, <<"chrome104">>, <<"chrome99_android">>,
      <<"safari15_3">>, <<"safari15_5">> }

\* BrowserType.has(item)
BrowserTypeHas(item) == item \in BrowserType

-----------------------------------------------------------------------------
(* The collaborators: the transport handle (Curl), Headers and Cookies *)

\* Curl(): a fresh handle holds the transport's defaults (peer and host
\* verification on, no body, no proxy, no credentials).
CurlInit ==
    [ CUSTOMREQUEST |-> <<>>, URL |-> <<>>, POSTFIELDS |-> <<>>,
      POSTFIELDSIZE |-> -1, HTTPHEADER |-> <<>>, USERNAME |-> <<>>,
      PASSWORD |-> <<>>, CONNECTTIMEOUT_MS |-> 0, TIMEOUT_MS |-> 0,
      FOLLOWLOCATION |-> 0, MAXREDIRS |-> -1, PROXY |-> <<>>,
      HTTPPROXYTUNNEL |-> 0, SSL_VERIFYPEER |-> 1, SSL_VERIFYHOST |-> 2,
      REFERER |-> <<>>, ACCEPT_ENCODING |-> <<>>, IMPERSONATE |-> <<>>,
      WRITEFUNCTION |-> 0, HEADERFUNCTION |-> 0 ]

\* c.setopt(option, value) on the frame x of a running call: the option
\* keeps the value until it is set again; x.set collects what this call set.
setopt(x, option, value) ==
    [x EXCEPT !.c = [x.c EXCEPT ![option] = value],
              !.set = x.set \cup {option}]

\* c.impersonate(target)
impersonate_(x, target) == setopt(x, "IMPERSONATE", target)

\* a raise statement ends the call: the frame keeps what was set before it
raise(x, type, kind) ==
    [x EXCEPT !.exc = [type |-> type, kind |-> kind, cause |-> <<>>]]

NoExc == [type |-> "", kind |-> "", cause |-> <<>>]

\* Headers: an ordered list of <<name, value>>; names compare without case.
RECURSIVE HeaderIndex(_, _, _)
HeaderIndex(h, name, i) ==
    IF i > Len(h) THEN 0
    ELSE IF Lower(h[i][1]) = Lower(name) THEN i
    ELSE HeaderIndex(h, name, i + 1)

\* h[name] = value
HeadersSet(h, name, value) ==
    LET i == HeaderIndex(h, name, 1)
    IN  IF i # 0 THEN [h EXCEPT ![i] = <<name, value>>]
        ELSE Append(h, <<name, value>>)

\* h.update(headers): every given header is set, in order; None changes nothing
RECURSIVE HeadersUpdateSeq(_, _)
HeadersUpdateSeq(h, items) ==
    IF items = <<>> THEN h
    ELSE HeadersUpdateSeq(HeadersSet(h, items[1][1], items[1][2]), Tail(items))

HeadersUpdate(h, headers) ==
    IF headers = None THEN h ELSE HeadersUpdateSeq(h, headers[1])

\* h.multi_items()
multi_items(h) == h

\* Cookies: an ordered list of [name, value, domain]; domain <<>> is a cookie
\* given without a domain, which every URL matches.
RECURSIVE CookieIndex(_, _, _, _)
CookieIndex(jar, name, domain, i) ==
    IF i > Len(jar) THEN 0
    ELSE IF jar[i].name = name /\ jar[i].domain = domain THEN i
    ELSE CookieIndex(jar, name, domain, i + 1)

CookieSet(jar, name, value, domain) ==
    LET i == CookieIndex(jar, name, domain, 1)
        ck == [name |-> name, value |-> value, domain |-> domain]
    IN  IF i # 0 THEN [jar EXCEPT ![i] = ck] ELSE Append(jar, ck)

\* co.update(cookies): the per-call cookies overlay the copy, by name
RECURSIVE CookiesUpdateSeq(_, _)
CookiesUpdateSeq(jar, items) ==
    IF items = <<>> THEN jar
    ELSE LET n == items[1][1]
             kept == SelectSeq(jar, LAMBDA ck : ck.name # n)
         IN  CookiesUpdateSeq(Append(kept,
                 [name |-> n, value |-> items[1][2], domain |-> <<>>]),
                 Tail(items))

CookiesUpdate(jar, cookies) ==
    IF cookies = None THEN jar ELSE CookiesUpdateSeq(jar, cookies[1])

\* the host of a URL <<scheme, "://", host, path...>>
HostOf(url) == IF Len(url) >= 3 THEN <<url[3]>> ELSE <<>>

CookieMatches(ck, url) == ck.domain = <<>> \/ ck.domain = HostOf(url)

\* "n1=v1; n2=v2" of a cookie list
RECURSIVE CookieValue(_)
CookieValue(cks) ==
    IF cks = <<>> THEN <<>>
    ELSE <<cks[1].name, "=", cks[1].value>>
         \o (IF Len(cks) > 1 THEN <<";", " ">> ELSE <<>>)
         \o CookieValue(Tail(cks))

\* co.set_cookie_header(req): the cookies matching req.url go into
\* req.headers, which is the call's h itself
set_cookie_header(co, url, h) ==
    LET cks == SelectSeq(co, LAMBDA ck : CookieMatches(ck, url))
    IN  IF cks = <<>> THEN h
        ELSE HeadersSet(h, <<"C", "ookie">>, CookieValue(cks))

SetCookiePrefix == <<"Set-Cookie", ":", " ">>

\* jar.extract_cookies(rsp): every "Set-Cookie: n=v" line of rsp.headers
\* enters the jar under the host of the request
RECURSIVE extract_cookies(_, _, _)
extract_cookies(jar, headers, url) ==
    IF headers = <<>> THEN jar
    ELSE LET l == headers[1]
         IN  IF StartsWith(l, SetCookiePrefix) /\ Len(l) = 6 /\ l[5] = "="
             THEN extract_cookies(CookieSet(jar, l[4], l[6], HostOf(url)),
                                  Tail(headers), url)
             ELSE extract_cookies(jar, Tail(headers), url)

\* c.get_reason_phrase(status_line): a status line is <<"HTTP/", code, reason>>
get_reason_phrase(status_line) == SubSeq(status_line, 3, Len(status_line))

-----------------------------------------------------------------------------
(* _update_url_params, session.py:31-73.  A URL is                          *)
(* <<scheme, "://", netloc, path>> followed by an optional "?" and the      *)
(* query tokens (names, "=", values, "&") and an optional "#", fragment.    *)

\* urllib.parse.unquote on one token
UnquoteChar(ch) ==
    CASE ch = "%2526" -> "%26"
      [] ch = "%26" -> "&"
      [] ch = "%3D" -> "="
      [] ch = "%20" -> " "
      [] OTHER -> ch

\* urllib.parse.unquote
unquote(s) == [i \in 1..Len(s) |-> UnquoteChar(s[i])]

\* urllib.parse.quote_plus on one token
QuotePlusChar(ch) ==
    CASE ch = "%26" -> "%2526"
      [] ch = "&" -> "%26"
      [] ch = "=" -> "%3D"
      [] ch = " " -> "+"
      [] ch = "+" -> "%2B"
      [] OTHER -> ch

quote_plus(s) == [i \in 1..Len(s) |-> QuotePlusChar(s[i])]

\* index of the first occurrence of token t in s at or after i, else Len(s)+1
RECURSIVE Find(_, _, _)
Find(s, t, i) ==
    IF i > Len(s) THEN Len(s) + 1
    ELSE IF s[i] = t THEN i
    ELSE Find(s, t, i + 1)

\* parse_qsl's decoding of a name or value: "+" is a space, then unquote
QsDecode(s) == unquote([i \in 1..Len(s) |-> IF s[i] = "+" THEN " " ELSE s[i]])

\* urllib.parse.parse_qsl(query): the "&"-separated fields that have an "="
\* and a non-empty value, decoded (keep_blank_values is False)
RECURSIVE parse_qsl(_)
parse_qsl(query) ==
    IF query = <<>> THEN <<>>
    ELSE LET amp == Find(query, "&", 1)
             field == SubSeq(query, 1, amp - 1)
             rest == SubSeq(query, amp + 1, Len(query))
             eq == Find(field, "=", 1)
             name == SubSeq(field, 1, eq - 1)
             value == SubSeq(field, eq + 1, Len(field))
         IN  IF eq > Len(field) \/ value = <<>>
             THEN parse_qsl(rest)
             ELSE <<(<<QsDecode(name), QsDecode(value)>>)>> \o parse_qsl(rest)

\* dict position of key k in an ordered mapping d, 0 when absent
RECURSIVE DictIndex(_, _, _)
DictIndex(d, k, i) ==
    IF i > Len(d) THEN 0
    ELSE IF d[i][1] = k THEN i
    ELSE DictIndex(d, k, i + 1)

\* d[k] = v
DictSet(d, k, v) ==
    LET i == DictIndex(d, k, 1)
    IN  IF i # 0 THEN [d EXCEPT ![i] = <<k, v>>] ELSE Append(d, <<k, v>>)

\* dict(pairs) and d.update(pairs)
RECURSIVE DictUpdate(_, _)
DictUpdate(d, pairs) ==
    IF pairs = <<>> THEN d
    ELSE DictUpdate(DictSet(d, pairs[1][1], pairs[1][2]), Tail(pairs))

\* urllib.parse.urlencode of an ordered mapping of strings
RECURSIVE urlencode(_)
urlencode(d) ==
    IF d = <<>> THEN <<>>
    ELSE quote_plus(d[1][1]) \o <<"=">> \o quote_plus(d[1][2])
         \o (IF Len(d) > 1 THEN <<"&">> ELSE <<>>)
         \o urlencode(Tail(d))

_update_url_params(url, params) ==
    LET u == unquote(url)
        q == Find(u, "?", 1)
        f == Find(u, "#", 1)
        front == SubSeq(u, 1, (IF q < f THEN q ELSE f) - 1)
        get_args == IF q < f THEN SubSeq(u, q + 1, f - 1) ELSE <<>>
        fragment == SubSeq(u, f, Len(u))
        parsed_get_args == DictUpdate(DictUpdate(<<>>, parse_qsl(get_args)),
                                      params)
        encoded_get_args == urlencode(parsed_get_args)
    IN  front
        \o (IF encoded_get_args # <<>> THEN <<"?">> \o encoded_get_args
            ELSE <<>>)
        \o fragment

-----------------------------------------------------------------------------
(* Session.request, session.py:137-320, step by step.  A frame x holds the  *)
(* handle x.c, the options x.set this call has set, the exception x.exc     *)
(* that ended it (NoExc while it runs) and the call's locals.               *)

Frame(c) ==
    [ c |-> c, set |-> {}, exc |-> NoExc, url |-> <<>>, body |-> <<>>,
      h |-> <<>>, header_lines |-> <<>> ]

\* json.dumps of an ordered mapping of strings
RECURSIVE DumpsItems(_)
DumpsItems(d) ==
    IF d = <<>> THEN <<>>
    ELSE <<"\"">> \o d[1][1] \o <<"\"", ":", " ", "\"">> \o d[1][2] \o <<"\"">>
         \o (IF Len(d) > 1 THEN <<",", " ">> ELSE <<>>)
         \o DumpsItems(Tail(d))

dumps(d) == <<"{">> \o DumpsItems(d) \o <<"}">>

\* lines 159-167: method and url
SetMethodUrl(x, s, a) ==
    LET url1 == IF Truthy(s.params)
                THEN _update_url_params(a.url, s.params[1]) ELSE a.url
        url2 == IF Truthy(a.params)
                THEN _update_url_params(url1, a.params[1]) ELSE url1
        x1 == setopt(x, "CUSTOMREQUEST", a.method)
    IN  [setopt(x1, "URL", url2) EXCEPT !.url = url2]

\* lines 170-181: the body bytes of the call
BodyOf(data, json) ==
    IF Truthy(json) THEN dumps(json[1])
    ELSE CASE data.type = "dict" -> urlencode(data.v)
           [] data.type = "BytesIO" -> data.v
           [] data.type = "bytes" -> data.v
           [] OTHER -> <<>>

\* lines 169-185: data/body/json
SetBody(x, a) ==
    IF a.data.type \notin {"dict", "BytesIO", "bytes", "None"}
    THEN raise(x, "TypeError", "InvalidBodyType")
    ELSE LET body == BodyOf(a.data, a.json)
             x1 == [x EXCEPT !.body = body]
         IN  IF body # <<>>
             THEN setopt(setopt(x1, "POSTFIELDS", body),
                         "POSTFIELDSIZE", Len(body))
             ELSE x1

\* MergedHeaders without line 195: no Cookie header is computed
MergedHeaders_NoCookieHeader(s, a, url) ==
    HeadersUpdate(s.headers, a.headers)

\* lines 187-195: the call's headers h, with the Cookie header of the
\* merged cookies
MergedHeaders(s, a, url) ==
    LET h == HeadersUpdate(s.headers, a.headers)
        co == CookiesUpdate(s.cookies, a.cookies)
    IN  set_cookie_header(co, url, h)

\* lines 202-204
RECURSIVE LinesOf(_)
LinesOf(items) ==
    IF items = <<>> THEN <<>>
    ELSE <<FormatLine(items[1][1], items[1][2])>> \o LinesOf(Tail(items))

\* lines 202-210: the header lines handed to the transport
HeaderLines(h, data, json) ==
    LET l0 == LinesOf(multi_items(h))
        l1 == IF Truthy(json)
              THEN _update_header_line(l0, ContentType, AppJson) ELSE l0
    IN  IF data.type = "dict"
        THEN _update_header_line(l1, ContentType, AppForm) ELSE l1

\* lines 187-211: headers and cookies
SetHeaders(x, s, a) ==
    LET h == MergedHeaders(s, a, x.url)
        header_lines == HeaderLines(h, a.data, a.json)
    IN  [setopt(x, "HTTPHEADER", header_lines)
            EXCEPT !.h = h, !.header_lines = header_lines]

\* lines 213-215: files
CheckFiles(x, a) ==
    IF Truthy(a.files) THEN raise(x, "NotImplementedError", "NotImplemented")
    ELSE x

\* lines 217-224: auth
SetAuth(x, s, a) ==
    IF Truthy(s.auth) \/ Truthy(a.auth)
    THEN LET pair == IF Truthy(a.auth) THEN a.auth[1] ELSE s.auth[1]
         IN  setopt(setopt(x, "USERNAME", pair[1]), "PASSWORD", pair[2])
    ELSE x

\* truth of a timeout: a number is true unless 0, a (connect, read) pair is
\* true.  A number is <<n>>, a pair <<connect, read>>.
TimeoutTruthy(t) == t # None /\ (Len(t[1]) = 2 \/ t[1][1] # 0)

\* lines 226-234: timeout
SetTimeout(x, s, a) ==
    LET timeout == IF TimeoutTruthy(a.timeout) THEN a.timeout[1]
                   ELSE s.timeout
    IN  IF Len(timeout) = 2
        THEN setopt(setopt(x, "CONNECTTIMEOUT_MS", timeout[1] * 1000),
                    "TIMEOUT_MS", (timeout[1] + timeout[2]) * 1000)
        ELSE setopt(x, "TIMEOUT_MS", timeout[1] * 1000)

\* lines 236-240: allow_redirects and max_redirects
SetRedirects(x, s, a) ==
    LET max_redirects == IF a.max_redirects # None /\ a.max_redirects[1] # 0
                         THEN a.max_redirects[1] ELSE s.max_redirects
    IN  setopt(setopt(x, "FOLLOWLOCATION", IF a.allow_redirects THEN 1 ELSE 0),
               "MAXREDIRS", max_redirects)

\* a proxies mapping is a function from scheme names to proxy URLs
NoProxies == [k \in {} |-> <<>>]

DictTruthy(o) == o # None /\ DOMAIN o[1] # {}

\* {**d1, **d2}
Merge(d1, d2) ==
    [k \in DOMAIN d1 \cup DOMAIN d2 |-> IF k \in DOMAIN d2 THEN d2[k] ELSE d1[k]]

\* lines 243-244: the mapping the call uses
EffectiveProxies(s, a) ==
    IF DictTruthy(s.proxies)
    THEN Some(Merge(s.proxies[1],
                    IF DictTruthy(a.proxies) THEN a.proxies[1] ELSE NoProxies))
    ELSE a.proxies

\* SetProxies without the test of line 249
SetProxies_NoSchemeTest(x, s, a) ==
    LET proxies == EffectiveProxies(s, a)
    IN  IF ~DictTruthy(proxies) THEN x
        ELSE IF StartsWith(x.url, <<"http", "://">>)
        THEN IF "http" \notin DOMAIN proxies[1]
             THEN raise(x, "KeyError", "KeyError")
             ELSE setopt(x, "PROXY", proxies[1]["http"])
        ELSE IF StartsWith(x.url, <<"https", "://">>)
        THEN IF "https" \notin DOMAIN proxies[1]
             THEN raise(x, "KeyError", "KeyError")
             ELSE LET x1 == setopt(x, "PROXY", proxies[1]["https"])
                  IN  IF ~StartsWith(proxies[1]["https"], <<"socks">>)
                      THEN setopt(x1, "HTTPPROXYTUNNEL", 1)
                      ELSE x1
        ELSE x

\* lines 242-256: proxies
SetProxies(x, s, a) ==
    LET proxies == EffectiveProxies(s, a)
    IN  IF ~DictTruthy(proxies) THEN x
        ELSE IF StartsWith(x.url, <<"http", "://">>)
        THEN IF "http" \notin DOMAIN proxies[1]
             THEN raise(x, "KeyError", "KeyError")
             ELSE setopt(x, "PROXY", proxies[1]["http"])
        ELSE IF StartsWith(x.url, <<"https", "://">>)
        THEN IF "https" \notin DOMAIN proxies[1]
             THEN raise(x, "KeyError", "KeyError")
             ELSE IF StartsWith(proxies[1]["https"], <<"https", "://">>)
             THEN raise(x, "RequestsError", "ProxyBadScheme")
             ELSE LET x1 == setopt(x, "PROXY", proxies[1]["https"])
                  IN  IF ~StartsWith(proxies[1]["https"], <<"socks">>)
                      THEN setopt(x1, "HTTPPROXYTUNNEL", 1)
                      ELSE x1
        ELSE x

\* lines 258-261: verify.  a.verify is None, <<TRUE>> or <<FALSE>>.
SetVerify(x, s, a) ==
    IF a.verify = Some(FALSE) \/ (~s.verify /\ a.verify = None)
    THEN setopt(setopt(x, "SSL_VERIFYPEER", 0), "SSL_VERIFYHOST", 0)
    ELSE x

\* lines 263-269: referer and accept_encoding
SetRefererEncoding(x, a) ==
    LET x1 == IF Truthy(a.referer) THEN setopt(x, "REFERER", a.referer[1])
              ELSE x
    IN  IF a.accept_encoding # None
        THEN setopt(x1, "ACCEPT_ENCODING", a.accept_encoding[1])
        ELSE x1

\* SetImpersonate without the test of line 274: any tag goes to the handle
SetImpersonate_NoCheck(x, s, a) ==
    LET impersonate == IF Truthy(a.impersonate) THEN a.impersonate
                       ELSE s.impersonate
    IN  IF Truthy(impersonate) THEN impersonate_(x, impersonate[1]) ELSE x

\* lines 271-276: impersonate
SetImpersonate(x, s, a) ==
    LET impersonate == IF Truthy(a.impersonate) THEN a.impersonate
                       ELSE s.impersonate
    IN  IF Truthy(impersonate)
        THEN IF ~BrowserTypeHas(impersonate[1])
             THEN raise(x, "RequestsError", "UnsupportedImpersonation")
             ELSE impersonate_(x, impersonate[1])
        ELSE x

\* lines 278-281: the body and header sinks of the call
SetSinks(x) == setopt(setopt(x, "WRITEFUNCTION", 1), "HEADERFUNCTION", 1)

\* the next statement F runs only while no exception has ended the call
Then(x, F(_)) == IF x.exc # NoExc THEN x ELSE F(x)

\* lines 157-215: method, url, body, headers, files
ConfigureRequest(c, s, a) ==
    Then(Then(SetBody(SetMethodUrl(Frame(c), s, a), a),
              LAMBDA x : SetHeaders(x, s, a)),
         LAMBDA x : CheckFiles(x, a))

\* lines 217-240: auth, timeout, redirects
ConfigureTransfer(x0, s, a) ==
    Then(Then(Then(x0,
                   LAMBDA x : SetAuth(x, s, a)),
              LAMBDA x : SetTimeout(x, s, a)),
         LAMBDA x : SetRedirects(x, s, a))

\* lines 242-276: proxies, verify, referer, accept_encoding, impersonate
ConfigureOptions(x0, s, a) ==
    Then(Then(Then(Then(x0,
                        LAMBDA x : SetProxies(x, s, a)),
                   LAMBDA x : SetVerify(x, s, a)),
              LAMBDA x : SetRefererEncoding(x, a)),
         LAMBDA x : SetImpersonate(x, s, a))

\* lines 242-281: proxies, verify, referer, accept_encoding, impersonate, sinks
ConfigureSecurity(x0, s, a) ==
    Then(ConfigureOptions(x0, s, a), LAMBDA x : SetSinks(x))

\* lines 157-276: everything request() does before it creates its sinks
ConfigureBeforeSinks(c, s, a) ==
    ConfigureOptions(ConfigureTransfer(ConfigureRequest(c, s, a), s, a), s, a)

\* lines 157-281: everything request() does before c.perform()
Configure(c, s, a) ==
    ConfigureSecurity(ConfigureTransfer(ConfigureRequest(c, s, a), s, a), s, a)

\* ParseHeaderLines without line 303: a status line keeps the earlier hops'
\* headers
RECURSIVE ParseHeaderLines_NoReset(_, _)
ParseHeaderLines_NoReset(header_lines, acc) ==
    IF header_lines = <<>> THEN acc
    ELSE LET header_line == header_lines[1]
             rest == Tail(header_lines)
         IN  IF IsBlank(header_line) THEN ParseHeaderLines_NoReset(rest, acc)
             ELSE IF StartsWith(header_line, <<"HTTP/">>)
             THEN ParseHeaderLines_NoReset(rest,
                      <<acc[1], get_reason_phrase(header_line)>>)
             ELSE ParseHeaderLines_NoReset(rest,
                      <<Append(acc[1], header_line), acc[2]>>)

\* lines 293-306: the header list and the reason phrase left by the captured
\* header lines; acc is <<header_list, reason>> so far
RECURSIVE ParseHeaderLines(_, _)
ParseHeaderLines(header_lines, acc) ==
    IF header_lines = <<>> THEN acc
    ELSE LET header_line == header_lines[1]
             rest == Tail(header_lines)
         IN  IF IsBlank(header_line) THEN ParseHeaderLines(rest, acc)
             ELSE IF StartsWith(header_line, <<"HTTP/">>)
             THEN ParseHeaderLines(rest,
                      <<(<<>>), get_reason_phrase(header_line)>>)
             ELSE ParseHeaderLines(rest,
                      <<Append(acc[1], header_line), acc[2]>>)

NoResponse == [made |-> FALSE]

\* lines 288-306: the Response built after a successful perform; t is what
\* the transport did (status, body, header lines written to the sinks)
BuildResponse(url, t) ==
    LET parsed == ParseHeaderLines(t.header_lines, <<(<<>>), <<>>>>)
    IN  [ made |-> TRUE, request_url |-> url, content |-> t.content,
          status_code |-> t.status_code,
          ok |-> (200 <= t.status_code /\ t.status_code < 400),
          reason |-> parsed[2], headers |-> parsed[1] ]

\* JarAfterPerform with the extraction moved before the test of perform's
\* outcome: whatever header lines reached the sink are extracted
JarAfterPerform_ExtractFirst(jar, t, rsp, url) ==
    extract_cookies(jar, ParseHeaderLines(t.header_lines, <<(<<>>), <<>>>>)[1],
                    url)

\* lines 283-307: the jar after perform
JarAfterPerform(jar, t, rsp, url) ==
    IF t.error # <<>> THEN jar
    ELSE extract_cookies(jar, rsp.headers, url)

\* lines 283-286: what perform's outcome raises: RequestsError(e)
PerformExc(t) ==
    IF t.error # <<>>
    THEN [type |-> "RequestsError", kind |-> "TransportError",
          cause |-> t.error]
    ELSE NoExc

-----------------------------------------------------------------------------
(* The state machine *)

\* Session(): every attribute at its default, session.py:101-126
DefaultSession ==
    [ headers |-> <<>>, cookies |-> <<>>, auth |-> None, proxies |-> None,
      params |-> None, verify |-> TRUE, timeout |-> <<30>>,
      max_redirects |-> -1, impersonate |-> None ]

\* request(method, url): every other argument at its default,
\* session.py:137-155
DefaultArgs ==
    [ method |-> <<"GET">>, url |-> <<"https", "://", "h1", "/">>,
      params |-> None, data |-> [type |-> "None", v |-> <<>>], json |-> None,
      headers |-> None, cookies |-> None, files |-> None, auth |-> None,
      timeout |-> None, allow_redirects |-> TRUE, max_redirects |-> None,
      proxies |-> None, verify |-> None, referer |-> None,
      accept_encoding |-> Some(<<"gzip, deflate, br">>),
      impersonate |-> None ]

\* what the transport does in perform: it fails with t.error, or writes a
\* body and the header lines of every hop to the sinks
TransportOk(status_code, content, header_lines) ==
    [ error |-> <<>>, status_code |-> status_code, content |-> content,
      header_lines |-> header_lines ]

TransportFails(error) ==
    [ error |-> error, status_code |-> 0, content |-> <<>>,
      header_lines |-> <<>> ]

\* perform fails after the header lines of a response reached the sink
TransportFailsAfter(error, header_lines) ==
    [ error |-> error, status_code |-> 0, content |-> <<>>,
      header_lines |-> header_lines ]

NoCall ==
    [ kind |-> "none", args |-> DefaultArgs, set |-> {}, exc |-> NoExc,
      performed |-> FALSE, rsp |-> NoResponse, url |-> <<>>, body |-> <<>>,
      header_lines |-> <<>>, jar_before |-> <<>>, transport |-> TransportFails(<<>>) ]

NoPure == [op |-> "none"]

\* the threads that call request() on the one Session
Threads == {1, 2}

\* what a perform executed with
NoPerform == [URL |-> <<>>, WRITEFUNCTION |-> 0, HEADERFUNCTION |-> 0]

\* a thread outside request(): pc is the statement it is at, buffer and
\* header_buffer are the BytesIO objects it created (0 before line 278)
IdleCall ==
    [ pc |-> "idle", kind |-> "none", url |-> <<>>, exc |-> NoExc,
      buffer |-> 0, header_buffer |-> 0, performed_with |-> NoPerform,
      transport |-> TransportFails(<<>>), rsp |-> NoResponse ]

\* no call in flight, no BytesIO created; response_code is what
\* c.getinfo(RESPONSE_CODE) returns; crossed records that some perform ran
\* with a URL or a sink that was not the performing call's own
NoRun ==
    [ calls |-> [i \in Threads |-> IdleCall], buffers |-> <<>>,
      header_buffers |-> <<>>, begun |-> 0, response_code |-> 0,
      crossed |-> FALSE ]

\* the parameters __exit__ declares after self, session.py:131
ExitParams == <<>>

\* what a with statement passes to __exit__
WithExitArgs == <<"exc_type", "exc_value", "traceback">>

\* the positions of a with statement over the Session, and how it was left
ScopeOutside == [at |-> "none", fault |-> ""]

ScopeEntered == [at |-> "entered", fault |-> ""]

ScopeLeft == [at |-> "left", fault |-> ""]

ScopeLeftFaulting == [at |-> "left", fault |-> "TypeError"]

InitWith(s) ==
    /\ session = s
    /\ curl = CurlInit
    /\ closed = FALSE
    /\ scope = ScopeOutside
    /\ call = NoCall
    /\ run = NoRun
    /\ pure = NoPure

\* request with h and co bound to the Session's own objects instead of
\* copies of them (h = self.headers, co = self.cookies at lines 188, 192)
request_NoCopy(a, t) ==
    /\ ~closed
    /\ LET x == Configure(curl, session, a)
           performed == x.exc = NoExc
           exc == IF performed THEN PerformExc(t) ELSE x.exc
           rsp == IF performed /\ t.error = <<>>
                  THEN BuildResponse(x.url, t) ELSE NoResponse
           co == IF "HTTPHEADER" \in x.set
                 THEN CookiesUpdate(session.cookies, a.cookies)
                 ELSE session.cookies
       IN  /\ curl' = x.c
           /\ session' = [session EXCEPT
                             !.headers = IF "HTTPHEADER" \in x.set
                                         THEN x.h ELSE @,
                             !.cookies = IF performed
                                         THEN JarAfterPerform(co, t, rsp, x.url)
                                         ELSE co]
           /\ call' = [ kind |-> IF exc = NoExc THEN "returned" ELSE "raised",
                        args |-> a, set |-> x.set, exc |-> exc,
                        performed |-> performed, rsp |-> rsp, url |-> x.url,
                        body |-> x.body, header_lines |-> x.header_lines,
                        jar_before |-> session.cookies, transport |-> t ]
    /\ UNCHANGED <<closed, scope, pure, run>>

\* Session.request(**a), the transport doing t in perform
request(a, t) ==
    /\ ~closed
    /\ LET x == Configure(curl, session, a)
           performed == x.exc = NoExc
           exc == IF performed THEN PerformExc(t) ELSE x.exc
           rsp == IF performed /\ t.error = <<>>
                  THEN BuildResponse(x.url, t) ELSE NoResponse
       IN  /\ curl' = x.c
           /\ session' = [session EXCEPT !.cookies =
                             IF performed
                             THEN JarAfterPerform(@, t, rsp, x.url) ELSE @]
           /\ call' = [ kind |-> IF exc = NoExc THEN "returned" ELSE "raised",
                        args |-> a, set |-> x.set, exc |-> exc,
                        performed |-> performed, rsp |-> rsp, url |-> x.url,
                        body |-> x.body, header_lines |-> x.header_lines,
                        jar_before |-> session.cookies, transport |-> t ]
    /\ UNCHANGED <<closed, scope, pure, run>>

\* Session.close(), session.py:134-135
close ==
    /\ ~closed
    /\ closed' = TRUE
    /\ UNCHANGED <<session, curl, scope, call, pure, run>>

\* Session.__enter__, session.py:128-129: `with session:` is entered
enter ==
    /\ scope.at = "none"
    /\ ~closed
    /\ scope' = ScopeEntered
    /\ UNCHANGED <<session, curl, closed, call, pure, run>>

\* the with statement is left, after a normal end of its block or after an
\* exception in it: __exit__ is called with WithExitArgs (session.py:131-132);
\* the call binds only if the declared parameters take them, and only then
\* does the body run self.close()
exit ==
    /\ scope.at = "entered"
    /\ IF Len(WithExitArgs) = Len(ExitParams)
       THEN /\ closed' = TRUE
            /\ scope' = ScopeLeft
       ELSE /\ closed' = closed
            /\ scope' = ScopeLeftFaulting
    /\ UNCHANGED <<session, curl, call, pure, run>>

-----------------------------------------------------------------------------
(* Inputs *)

Urls == { <<"https", "://", "h1", "/">>, <<"http", "://", "h2", "/">> }

StatusOk == <<"HTTP/", "200", "OK">>

StatusFound == <<"HTTP/", "302", "Found">>

\* perform fails, or answers 200 with one header
TransportsBasic ==
    { TransportFails(<<"CURLE_COULDNT_CONNECT">>),
      TransportOk(200, <<"ok">>, <<StatusOk, <<"h", ":", " ", "1">>, <<>> >>) }

-----------------------------------------------------------------------------
(* Session.request, session.py:137-320, as the steps of a thread: the       *)
(* handle, the Session and the BytesIO objects are shared by the threads,   *)
(* which may be switched between any two statements.                        *)

MaxCalls == 3

\* perform writes into the sinks in force on the handle what the server of
\* the URL in force on the handle answers, or fails part of the way
Serves(url) ==
    LET host == IF Len(url) >= 3 THEN url[3] ELSE ""
    IN  { TransportOk(200, <<"body of", host>>,
                      <<StatusOk, <<"h", ":", " ", host>>, <<>> >>),
          [ error |-> <<"CURLE_RECV_ERROR">>, status_code |-> 0,
            content |-> <<"part of", host>>,
            header_lines |-> <<StatusOk, <<"h", ":", " ", host>> >> ] }

\* lines 157-276 by thread i: the options of the call are set on the handle
begin(i, a) ==
    /\ ~closed
    /\ run.calls[i].pc = "idle"
    /\ run.begun < MaxCalls
    /\ LET x == ConfigureBeforeSinks(curl, session, a)
       IN  /\ curl' = x.c
           /\ run' = [run EXCEPT
                 !.begun = @ + 1,
                 !.calls[i] =
                    IF x.exc # NoExc
                    THEN [IdleCall EXCEPT !.kind = "raised", !.url = x.url,
                                          !.exc = x.exc]
                    ELSE [IdleCall EXCEPT !.pc = "sinks", !.kind = "running",
                                          !.url = x.url]]
    /\ UNCHANGED <<session, closed, scope, call, pure>>

\* attach_sinks with the BytesIO objects made once and kept on the handle:
\* a call takes over the sinks the handle has
attach_sinks_Reuse(i) ==
    /\ run.calls[i].pc = "sinks"
    /\ LET fresh == curl.WRITEFUNCTION = 0
           b == IF fresh THEN Len(run.buffers) + 1 ELSE curl.WRITEFUNCTION
       IN  /\ curl' = [curl EXCEPT !.WRITEFUNCTION = b, !.HEADERFUNCTION = b]
           /\ run' = [run EXCEPT
                 !.buffers = IF fresh THEN Append(@, <<>>) ELSE @,
                 !.header_buffers = IF fresh THEN Append(@, <<>>) ELSE @,
                 !.calls[i].buffer = b,
                 !.calls[i].header_buffer = b,
                 !.calls[i].pc = "perform"]
    /\ UNCHANGED <<session, closed, scope, call, pure>>

\* lines 278-281 by thread i: two new, empty BytesIO objects become the
\* body sink and the header sink of the handle
attach_sinks(i) ==
    /\ run.calls[i].pc = "sinks"
    /\ LET b == Len(run.buffers) + 1
       IN  /\ curl' = [curl EXCEPT !.WRITEFUNCTION = b, !.HEADERFUNCTION = b]
           /\ run' = [run EXCEPT
                 !.buffers = Append(@, <<>>),
                 !.header_buffers = Append(@, <<>>),
                 !.calls[i].buffer = b,
                 !.calls[i].header_buffer = b,
                 !.calls[i].pc = "perform"]
    /\ UNCHANGED <<session, closed, scope, call, pure>>

\* lines 283-286 by thread i: c.perform() runs with the options and the
\* sinks in force on the handle; the transport does t
perform(i, t) ==
    /\ run.calls[i].pc = "perform"
    /\ run' = [run EXCEPT
          !.buffers[curl.WRITEFUNCTION] = @ \o t.content,
          !.header_buffers[curl.HEADERFUNCTION] = @ \o t.header_lines,
          !.response_code = t.status_code,
          !.crossed = \/ @
                      \/ curl.URL # run.calls[i].url
                      \/ curl.WRITEFUNCTION # run.calls[i].buffer
                      \/ curl.HEADERFUNCTION # run.calls[i].header_buffer,
          !.calls[i] =
             [@ EXCEPT
                !.transport = t,
                !.performed_with =
                   [ URL |-> curl.URL, WRITEFUNCTION |-> curl.WRITEFUNCTION,
                     HEADERFUNCTION |-> curl.HEADERFUNCTION ],
                !.exc = PerformExc(t),
                !.kind = IF t.error # <<>> THEN "raised" ELSE @,
                !.pc = IF t.error # <<>> THEN "idle" ELSE "response"]]
    /\ UNCHANGED <<session, curl, closed, scope, call, pure>>

\* respond reading the sinks in force on the handle (what WRITEFUNCTION and
\* HEADERFUNCTION point at) instead of the thread's own buffer and
\* header_buffer
respond_FromHandleSinks(i) ==
    /\ run.calls[i].pc = "response"
    /\ LET c == run.calls[i]
           rsp == BuildResponse(c.url,
                      TransportOk(run.response_code,
                                  run.buffers[curl.WRITEFUNCTION],
                                  run.header_buffers[curl.HEADERFUNCTION]))
       IN  /\ session' = [session EXCEPT !.cookies =
                             JarAfterPerform(@, c.transport, rsp, c.url)]
           /\ run' = [run EXCEPT
                 !.calls[i] = [c EXCEPT !.pc = "idle", !.kind = "returned",
                                        !.rsp = rsp]]
    /\ UNCHANGED <<curl, closed, scope, call, pure>>

\* lines 288-320 by thread i: the Response is built from the thread's own
\* BytesIO objects, its cookies enter the jar, the call returns
respond(i) ==
    /\ run.calls[i].pc = "response"
    /\ LET c == run.calls[i]
           rsp == BuildResponse(c.url,
                      TransportOk(run.response_code, run.buffers[c.buffer],
                                  run.header_buffers[c.header_buffer]))
       IN  /\ session' = [session EXCEPT !.cookies =
                             JarAfterPerform(@, c.transport, rsp, c.url)]
           /\ run' = [run EXCEPT
                 !.calls[i] = [c EXCEPT !.pc = "idle", !.kind = "returned",
                                        !.rsp = rsp]]
    /\ UNCHANGED <<curl, closed, scope, call, pure>>

-----------------------------------------------------------------------------
(* TLS verification across the requests of one Session *)

ArgsVerify ==
    { [DefaultArgs EXCEPT !.verify = v, !.url = u, !.referer = r] :
        v \in {None, Some(TRUE), Some(FALSE)}, u \in Urls,
        r \in {None, Some(<<"ref">>)} }

InitVerify == \E v \in BOOLEAN : InitWith([DefaultSession EXCEPT !.verify = v])

NextVerify == \E a \in ArgsVerify, t \in TransportsBasic : request(a, t)

SpecVerify == InitVerify /\ [][NextVerify]_vars

\* the verify flag in force for a call: the per-call one when given
EffectiveVerify(s, a) == IF a.verify # None THEN a.verify[1] ELSE s.verify

\* C1: when perform is invoked, certificate and hostname verification are
\* off on the handle only if the call's effective verify flag is false.
C1_VerifyOffOnlyIfAsked ==
    call.performed =>
        ((curl.SSL_VERIFYPEER = 0 \/ curl.SSL_VERIFYHOST = 0)
            => ~EffectiveVerify(session, call.args))


-----------------------------------------------------------------------------
(* Bodies and Content-Type across the requests of one Session *)

DataValues ==
    { [type |-> "None", v |-> <<>>],
      [type |-> "dict", v |-> <<(<< <<"a">>, <<"1">> >>)>>],
      [type |-> "bytes", v |-> <<"raw">>],
      [type |-> "BytesIO", v |-> <<"stream">>],
      [type |-> "str", v |-> <<"text">>] }

JsonValues == { None, Some(<<(<< <<"k">>, <<"v">> >>)>>) }

HeaderValues ==
    { None,
      Some(<<(<<ContentType, <<"text/plain">> >>)>>),
      Some(<<(<<Lower(ContentType), <<"text/plain">> >>)>>),
      Some(<<(<< <<"A", "ccept">>, <<"*/*">> >>)>>) }

ArgsBody ==
    { [DefaultArgs EXCEPT !.data = d, !.json = j, !.headers = h] :
        d \in DataValues, j \in JsonValues, h \in HeaderValues }

InitBody == InitWith(DefaultSession)

NextBody == \E a \in ArgsBody, t \in TransportsBasic : request(a, t)

SpecBody == InitBody /\ [][NextBody]_vars

\* C2: a call that supplies neither data nor json performs with an empty
\* body configured on the handle, whatever ran before on the Session.
C2_NoBodyGivenNoBodySent ==
    (call.performed /\ call.args.data.type = "None" /\ call.args.json = None)
        => curl.POSTFIELDS = <<>>

\* the lines of a list whose header name is Content-Type, in any case
ContentTypeLines(lines) ==
    SelectSeq(lines, LAMBDA l : Lower(NameOf(l)) = Lower(ContentType))

\* C3: given both a JSON payload and a form mapping, the body handed to the
\* transport is the JSON text and the header lines carry exactly one
\* Content-Type, application/json.
C3_JsonWinsOverForm ==
    (call.args.data.type = "dict" /\ Truthy(call.args.json)
        /\ "HTTPHEADER" \in call.set)
        => /\ curl.POSTFIELDS = dumps(call.args.json[1])
           /\ Len(ContentTypeLines(curl.HTTPHEADER)) = 1
           /\ ContentTypeLines(curl.HTTPHEADER)[1]
                = NameOf(ContentTypeLines(curl.HTTPHEADER)[1])
                  \o <<":", " ">> \o AppJson


-----------------------------------------------------------------------------
(* _update_header_line applied on its own *)

MaxLines == 2

HeaderNames ==
    { ContentType, Lower(ContentType), <<"A", "ccept">>, <<"a", "ccept">> }

LineValues == { <<"x">>, <<"y">> }

Lines == { FormatLine(n, v) : n \in HeaderNames, v \in LineValues }

\* the lists of at most n lines
LineLists(n) == UNION { [1..k -> Lines] : k \in 0..n }

InitLine ==
    /\ session = DefaultSession
    /\ curl = CurlInit
    /\ closed = FALSE
    /\ scope = ScopeOutside
    /\ call = NoCall
    /\ run = NoRun
    /\ \E l \in LineLists(MaxLines), k \in HeaderNames :
          pure = [ op |-> "input", header_lines |-> l, key |-> k,
                   value |-> <<"z">>, out |-> <<>> ]

\* _update_header_line(header_lines, key, value) is called
update_header_line ==
    /\ pure.op = "input"
    /\ pure' = [pure EXCEPT !.op = "_update_header_line",
                   !.out = _update_header_line(pure.header_lines, pure.key,
                                               pure.value)]
    /\ UNCHANGED <<session, curl, closed, scope, call, run>>

NextLine == update_header_line

SpecLine == InitLine /\ [][NextLine]_vars

\* the positions of the lines whose header name is key, without case
SameName(lines, key) ==
    { i \in 1..Len(lines) : Lower(NameOf(lines[i])) = Lower(key) }

Min(S) == CHOOSE i \in S : \A j \in S : i <= j

\* C4: _update_header_line replaces in place the first line whose header
\* name equals key without regard to case, and appends "key: value" when no
\* line has that name; the list grows by at most one.
C4_ReplaceOrAppend ==
    pure.op = "_update_header_line" =>
        LET l == pure.header_lines
            new == FormatLine(pure.key, pure.value)
            hits == SameName(l, pure.key)
        IN  /\ Len(pure.out) <= Len(l) + 1
            /\ IF hits # {}
               THEN pure.out = [l EXCEPT ![Min(hits)] = new]
               ELSE pure.out = Append(l, new)

-----------------------------------------------------------------------------
(* A Session used in a with statement *)

InitScope == InitWith(DefaultSession)

NextScope ==
    \/ enter
    \/ exit
    \/ close
    \/ \E a \in ArgsVerify, t \in TransportsBasic : request(a, t)

SpecScope == InitScope /\ [][NextScope]_vars

\* C5: once the with statement is left, after requests that returned or
\* raised, the handle's close() has been invoked and leaving did not fault.
C5_ScopeExitCloses ==
    scope.at = "left" => (closed /\ scope.fault = "")


-----------------------------------------------------------------------------
(* Configuration errors: proxies, impersonation, files, data *)

ProxyValues ==
    { None,
      Some([k \in {"https"} |-> <<"https", "://", "p">>]),
      Some([k \in {"http", "https"} |-> <<"http", "://", "p">>]) }

ImpersonateValues == { None, Some(<<"chrome101">>), Some(<<"firefox1">>) }

ArgsConfig ==
    { [DefaultArgs EXCEPT !.url = u, !.proxies = p, !.impersonate = i,
                          !.files = f, !.data = d] :
        u \in Urls, p \in ProxyValues, i \in ImpersonateValues,
        f \in {None, Some(<<(<< <<"f">>, <<"bytes">> >>)>>)},
        d \in { [type |-> "None", v |-> <<>>],
                [type |-> "str", v |-> <<"text">>] } }

SessionsConfig ==
    { [DefaultSession EXCEPT !.proxies = p, !.impersonate = i] :
        p \in { None, Some([k \in {"http", "https"} |-> <<"https", "://", "sp">>]) },
        i \in { None, Some(<<"safari9">>) } }

InitConfig == \E s \in SessionsConfig : InitWith(s)

TransportsConfig == { TransportFails(<<"CURLE_COULDNT_CONNECT">>) }

NextConfig == \E a \in ArgsConfig, t \in TransportsConfig : request(a, t)

SpecConfig == InitConfig /\ [][NextConfig]_vars

\* the impersonation tag of a call: the per-call one when given and not empty
EffectiveImpersonate(s, a) ==
    IF Truthy(a.impersonate) THEN a.impersonate ELSE s.impersonate

\* C6: a call whose effective impersonation tag is not empty and not one of
\* the enumerated tags fails with the unsupported-impersonation error, and
\* has set no option of the handle when it fails.
C6_BadTagBeforeConfiguration ==
    (call.kind # "none"
        /\ Truthy(EffectiveImpersonate(session, call.args))
        /\ EffectiveImpersonate(session, call.args)[1] \notin BrowserType)
        => (call.exc.kind = "UnsupportedImpersonation" /\ call.set = {})

\* the session mapping overlaid by the per-call mapping
OverlaidProxies(s, a) ==
    Merge(IF s.proxies = None THEN NoProxies ELSE s.proxies[1],
          IF a.proxies = None THEN NoProxies ELSE a.proxies[1])

\* the call is to an https:// URL through an https:// proxy
HttpsThroughHttps(s, a) ==
    /\ StartsWith(a.url, <<"https", "://">>)
    /\ "https" \in DOMAIN OverlaidProxies(s, a)
    /\ StartsWith(OverlaidProxies(s, a)["https"], <<"https", "://">>)

\* C7 as stated: such a call fails with the proxy-bad-scheme error whatever
\* the other arguments are, and perform is not invoked.
C7_AlwaysProxyBadScheme ==
    (call.kind # "none" /\ HttpsThroughHttps(session, call.args))
        => (call.exc.kind = "ProxyBadScheme" /\ ~call.performed)

\* C7 (amended): such a call never invokes perform; it fails with the
\* invalid-body-type error when data has an unsupported type, else with the
\* not-implemented error when files is not empty, else with the
\* proxy-bad-scheme error.
C7_ProxyBadSchemeInOrder ==
    (call.kind # "none" /\ HttpsThroughHttps(session, call.args))
        => /\ ~call.performed
           /\ call.exc.kind =
                IF call.args.data.type
                      \notin {"dict", "BytesIO", "bytes", "None"}
                THEN "InvalidBodyType"
                ELSE IF Truthy(call.args.files) THEN "NotImplemented"
                ELSE "ProxyBadScheme"

C7_Witness ==
    /\ call.kind = "raised"
    /\ HttpsThroughHttps(session, call.args)
    /\ Truthy(call.args.impersonate)
    /\ call.exc.kind = "ProxyBadScheme"
    /\ curl.PROXY # <<>>

\* the five kinds of failure of request()
ErrorTaxonomy ==
    { "InvalidBodyType", "NotImplemented", "ProxyBadScheme",
      "UnsupportedImpersonation", "TransportError" }

\* C18: every call that raises fails with one of the five kinds of the
\* taxonomy, a proxies mapping without an entry for the URL's scheme
\* included.
C18_FailuresInTaxonomy ==
    call.kind = "raised" => call.exc.kind \in ErrorTaxonomy


-----------------------------------------------------------------------------
(* Responses and the cookie jar across the requests of one Session *)

SetCookie(n, v) == SetCookiePrefix \o <<n, "=", v>>

TransportsCookies ==
    { TransportFails(<<"CURLE_COULDNT_CONNECT">>),
      TransportFailsAfter(<<"CURLE_RECV_ERROR">>,
                          <<StatusOk, SetCookie("a", "3"), <<>> >>),
      TransportOk(200, <<"ok">>, <<StatusOk, SetCookie("a", "1"), <<>> >>),
      TransportOk(200, <<"ok">>,
                  <<StatusFound, SetCookie("b", "1"), <<>>,
                    StatusOk, SetCookie("a", "2"), <<>> >>),
      TransportOk(404, <<>>, <<StatusOk, <<"h", ":", " ", "1">>, <<>> >>) }

ArgsCookies ==
    { [DefaultArgs EXCEPT !.url = u, !.cookies = c, !.data = d] :
        u \in Urls,
        c \in { None, Some(<<(<<"a", "9">>)>>) },
        d \in { [type |-> "None", v |-> <<>>],
                [type |-> "dict", v |-> <<(<< <<"a">>, <<"1">> >>)>>] } }

InitCookies == InitWith(DefaultSession)

NextCookies == \E a \in ArgsCookies, t \in TransportsCookies : request(a, t)

SpecCookies == InitCookies /\ [][NextCookies]_vars

\* C8: when perform fails the call raises the request error carrying the
\* transport error, returns no Response and leaves the Session's cookie jar
\* as it was before the call.
C8_TransportFailure ==
    (call.performed /\ call.transport.error # <<>>)
        => /\ call.kind = "raised"
           /\ call.exc.type = "RequestsError"
           /\ call.exc.cause = call.transport.error
           /\ ~call.rsp.made
           /\ session.cookies = call.jar_before

C8_Witness ==
    /\ call.performed
    /\ call.transport.error # <<>>
    /\ call.transport.header_lines # <<>>
    /\ call.jar_before # <<>>
    /\ call.kind = "raised"

\* the positions of the Set-Cookie lines of a header list
SetCookieLines(headers) ==
    { i \in 1..Len(headers) : StartsWith(headers[i], SetCookiePrefix) }

\* the Cookie lines of a line list
CookieLines(lines) ==
    { i \in 1..Len(lines) : Lower(NameOf(lines[i])) = <<"c", "ookie">> }

InJar(jar, name, value, domain) ==
    \E i \in 1..Len(jar) :
        jar[i] = [name |-> name, value |-> value, domain |-> domain]

\* C10: after a call returns, every cookie its final-hop Set-Cookie lines
\* set (the last line of a name counts) is in the Session's jar under the
\* host of the request; and the header lines of every call carry, in their
\* Cookie line, each cookie the jar held for the URL when the call began,
\* unless the call's cookies argument gives that name.
C10_CookiesPersist ==
    /\ call.kind = "returned" =>
          \A i \in SetCookieLines(call.rsp.headers) :
             LET l == call.rsp.headers[i]
             IN  (\A j \in SetCookieLines(call.rsp.headers) :
                      j > i => call.rsp.headers[j][4] # l[4])
                 => InJar(session.cookies, l[4], l[6], HostOf(call.url))
    /\ "HTTPHEADER" \in call.set =>
          \A k \in 1..Len(call.jar_before) :
             LET ck == call.jar_before[k]
                 given == IF call.args.cookies = None THEN <<>>
                          ELSE call.args.cookies[1]
             IN  (CookieMatches(ck, call.url)
                  /\ \A g \in 1..Len(given) : given[g][1] # ck.name)
                 => \E i \in CookieLines(curl.HTTPHEADER) :
                       Contains(curl.HTTPHEADER[i],
                                <<ck.name, "=", ck.value>>)

C10_Witness ==
    /\ call.kind = "returned"
    /\ \E k \in 1..Len(call.jar_before) :
          /\ CookieMatches(call.jar_before[k], call.url)
          /\ call.jar_before[k].name = "a"
    /\ call.args.cookies = None
    /\ CookieLines(curl.HTTPHEADER) # {}
    /\ SetCookieLines(call.rsp.headers) # {}

-----------------------------------------------------------------------------
(* The header stream of a response, parsed on its own *)

MaxStream == 3

StreamLines ==
    { StatusOk, StatusFound, <<"h", ":", " ", "1">>, <<"g", ":", " ", "2">>,
      <<>>, <<" ">>, <<" ", "HTTP/", "x">> }

Streams(n) == UNION { [1..k -> StreamLines] : k \in 0..n }

InitParse ==
    /\ session = DefaultSession
    /\ curl = CurlInit
    /\ closed = FALSE
    /\ scope = ScopeOutside
    /\ call = NoCall
    /\ run = NoRun
    /\ \E l \in Streams(MaxStream) :
          pure = [ op |-> "input", header_lines |-> l, out |-> NoResponse ]

\* lines 288-306 run on the header bytes a transport wrote
build_response ==
    /\ pure.op = "input"
    /\ pure' = [pure EXCEPT !.op = "BuildResponse",
                   !.out = BuildResponse(DefaultArgs.url,
                               TransportOk(200, <<>>, pure.header_lines))]
    /\ UNCHANGED <<session, curl, closed, scope, call, run>>

NextParse == build_response

SpecParse == InitParse /\ [][NextParse]_vars

\* the positions of the status lines of a stream
StatusLines(lines) ==
    { i \in 1..Len(lines) : StartsWith(lines[i], <<"HTTP/">>) }

Max(S) == CHOOSE i \in S : \A j \in S : j <= i

\* C9: for a header stream with one or more status lines, the Response's
\* headers are the non-blank lines after the last status line, in order,
\* and its reason is that of the last status line.
C9_FinalHopOnly ==
    (pure.op = "BuildResponse" /\ StatusLines(pure.header_lines) # {})
        => LET l == pure.header_lines
               last == Max(StatusLines(l))
           IN  /\ pure.out.headers
                    = SelectSeq(SubSeq(l, last + 1, Len(l)),
                                LAMBDA x : ~IsBlank(x))
               /\ pure.out.reason = get_reason_phrase(l[last])

C9_Witness ==
    /\ pure.op = "BuildResponse"
    /\ Cardinality(StatusLines(pure.header_lines)) = 2
    /\ pure.header_lines[1] = StatusFound
    /\ ~IsBlank(pure.header_lines[2])
    /\ pure.out.reason = <<"OK">>
    /\ pure.out.headers = <<>>

-----------------------------------------------------------------------------
(* Per-call headers and cookies against the Session's defaults *)

SessionOverrides ==
    [DefaultSession EXCEPT
        !.headers = <<(<< <<"X">>, <<"1">> >>)>>,
        !.cookies = <<[name |-> "s", value |-> "0", domain |-> <<>>]>>]

ArgsOverrides ==
    { [DefaultArgs EXCEPT !.headers = h, !.cookies = c, !.files = f] :
        h \in { None, Some(<<(<< <<"X">>, <<"2">> >>)>>),
                Some(<<(<< <<"Y">>, <<"3">> >>)>>) },
        c \in { None, Some(<<(<<"a", "9">>)>>), Some(<<(<<"s", "7">>)>>) },
        f \in { None, Some(<<(<< <<"f">>, <<"bytes">> >>)>>) } }

\* perform fails after a Set-Cookie line reached the sink, or answers 200
\* with a cookie
TransportsOverrides ==
    { TransportFailsAfter(<<"CURLE_RECV_ERROR">>,
                          <<StatusOk, SetCookie("a", "3"), <<>> >>),
      TransportOk(200, <<"ok">>, <<StatusOk, SetCookie("a", "1"), <<>> >>),
      TransportOk(200, <<"ok">>, <<StatusOk, SetCookie("s", "2"), <<>> >>) }

InitOverrides == InitWith(SessionOverrides)

NextOverrides ==
    \E a \in ArgsOverrides, t \in TransportsOverrides : request(a, t)

SpecOverrides == InitOverrides /\ [][NextOverrides]_vars

\* the cookie ck is set by a Set-Cookie line of the header list, for the host
\* of url
SetByResponse(ck, headers, url) ==
    \E i \in SetCookieLines(headers) :
        ck = [name |-> headers[i][4], value |-> headers[i][6],
              domain |-> HostOf(url)]

\* C11: a request() call, returned or raised, leaves Session.headers as it
\* was; every cookie of the jar after the call was in the jar before it or
\* is set by a Set-Cookie line of the returned Response, so no cookie of the
\* call's cookies argument enters the jar; and the jar changes only when a
\* Response was returned.
C11_OverridesLeaveDefaults ==
    [][ /\ session'.headers = session.headers
        /\ \A i \in 1..Len(session'.cookies) :
              \/ \E j \in 1..Len(session.cookies) :
                    session.cookies[j] = session'.cookies[i]
              \/ /\ call'.kind = "returned"
                 /\ SetByResponse(session'.cookies[i], call'.rsp.headers,
                                  call'.url)
        /\ session'.cookies # session.cookies => call'.kind = "returned" ]_vars

C11_Witness ==
    /\ call.kind = "returned"
    /\ call.args.headers # None
    /\ call.args.cookies # None
    /\ session.headers # <<>>
    /\ session.cookies # call.jar_before
    /\ CookieLines(curl.HTTPHEADER) # {}

-----------------------------------------------------------------------------
(* Configuration errors against perform and the cookie jar *)

ArgsErrors ==
    { [DefaultArgs EXCEPT !.data = d, !.files = f, !.proxies = p,
                          !.impersonate = i] :
        d \in { [type |-> "None", v |-> <<>>],
                [type |-> "str", v |-> <<"text">>] },
        f \in { None, Some(<<(<< <<"f">>, <<"bytes">> >>)>>) },
        p \in { None, Some([k \in {"https"} |-> <<"https", "://", "p">>]) },
        i \in ImpersonateValues }

\* perform answers 200 with a cookie
TransportsErrors ==
    { TransportOk(200, <<"ok">>, <<StatusOk, SetCookie("a", "1"), <<>> >>),
      TransportOk(200, <<"ok">>, <<StatusOk, SetCookie("a", "2"), <<>> >>) }

InitErrors == InitWith(DefaultSession)

NextErrors == \E a \in ArgsErrors, t \in TransportsErrors : request(a, t)

SpecErrors == InitErrors /\ [][NextErrors]_vars

ConfigurationErrors ==
    { "InvalidBodyType", "NotImplemented", "ProxyBadScheme",
      "UnsupportedImpersonation" }

\* the arguments hold one of the four causes of a configuration error
HasConfigurationError(s, a) ==
    \/ a.data.type \notin {"dict", "BytesIO", "bytes", "None"}
    \/ Truthy(a.files)
    \/ HttpsThroughHttps(s, a)
    \/ /\ Truthy(EffectiveImpersonate(s, a))
       /\ EffectiveImpersonate(s, a)[1] \notin BrowserType

\* C12: a call with an unsupported data type, non-empty files, an https://
\* proxy for an https:// URL or an unrecognized impersonation tag raises a
\* configuration error; perform is never invoked by it, no Response is
\* returned and the Session's cookie jar is as it was before the call.
C12_ConfigErrorBeforePerform ==
    (call.kind # "none" /\ HasConfigurationError(session, call.args))
        => /\ call.kind = "raised"
           /\ call.exc.kind \in ConfigurationErrors
           /\ ~call.performed
           /\ ~call.rsp.made
           /\ session.cookies = call.jar_before

C12_Witness ==
    /\ call.kind = "raised"
    /\ call.exc.kind = "UnsupportedImpersonation"
    /\ call.jar_before # <<>>
    /\ session.cookies = call.jar_before
    /\ "ACCEPT_ENCODING" \in call.set

-----------------------------------------------------------------------------
(* The handle's configuration across the requests of one Session *)

ArgsSticky ==
    { [DefaultArgs EXCEPT !.auth = au, !.proxies = p, !.referer = r,
                          !.timeout = t] :
        au \in { None, Some(<< <<"user">>, <<"pw">> >>) },
        p \in { None, Some([k \in {"https"} |-> <<"http", "://", "p">>]) },
        r \in { None, Some(<<"ref">>) },
        t \in { None, Some(<<2, 5>>) } }

InitSticky == InitWith(DefaultSession)

NextSticky == \E a \in ArgsSticky, t \in TransportsBasic : request(a, t)

SpecSticky == InitSticky /\ [][NextSticky]_vars

\* the configuration a Session with the same defaults and the same jar
\* performs the call with when it has run no request before
FirstCallConfiguration(s, jar, a) ==
    Configure(CurlInit, [s EXCEPT !.cookies = jar], a).c

\* C13: when perform is invoked, the handle's configuration is the one a
\* Session with equal defaults and jar that ran nothing before performs the
\* same call with: nothing set for an earlier request is in force.
C13_ConfigurationFromCallOnly ==
    call.performed
        => curl = FirstCallConfiguration(session, call.jar_before, call.args)

-----------------------------------------------------------------------------
(* Method, timeout and redirect limits *)

\* str.upper on one token: only the single small letters have an upper form
UpperChar(ch) ==
    CASE ch = "g" -> "G"
      [] ch = "e" -> "E"
      [] ch = "t" -> "T"
      [] ch = "p" -> "P"
      [] ch = "o" -> "O"
      [] ch = "s" -> "S"
      [] OTHER -> ch

\* str.upper
Upper(s) == [i \in 1..Len(s) |-> UpperChar(s[i])]

\* "GET" as the shorthand get() passes it, "get" and "Post"
MethodValues == { <<"G", "E", "T">>, <<"g", "e", "t">>, <<"P", "o", "s", "t">> }

MaxRedirectsValues == { None, Some(0), Some(3) }

\* a number of seconds <<n>> or a pair <<connect, read>>
TimeoutValues == { None, Some(<<0>>), Some(<<5>>), Some(<<2, 5>>) }

ArgsTransfer ==
    { [DefaultArgs EXCEPT !.method = m, !.max_redirects = r, !.timeout = t] :
        m \in MethodValues, r \in MaxRedirectsValues, t \in TimeoutValues }

SessionsTransfer ==
    { [DefaultSession EXCEPT !.max_redirects = r, !.timeout = t] :
        r \in {-1, 7}, t \in { <<30>>, <<3, 4>> } }

InitTransfer == \E s \in SessionsTransfer : InitWith(s)

NextTransfer == \E a \in ArgsTransfer, t \in TransportsBasic : request(a, t)

SpecTransfer == InitTransfer /\ [][NextTransfer]_vars

\* C14: the max-redirect count configured by a call is the per-call
\* max_redirects whenever one is supplied, 0 included, and the session
\* default only when none is supplied.
C14_MaxRedirectsPerCallFirst ==
    "MAXREDIRS" \in call.set
        => curl.MAXREDIRS = IF call.args.max_redirects # None
                            THEN call.args.max_redirects[1]
                            ELSE session.max_redirects

\* the timeout of a call: the per-call one when supplied
SuppliedTimeout(s, a) == IF a.timeout # None THEN a.timeout[1] ELSE s.timeout

\* C15: the timeout configured by a call is the per-call timeout when one is
\* supplied, else the session default; a pair (connect, read) configures
\* connect*1000 ms for the connect phase and (connect+read)*1000 ms in
\* total, a single number s configures s*1000 ms in total.
C15_TimeoutMilliseconds ==
    "TIMEOUT_MS" \in call.set
        => LET timeout == SuppliedTimeout(session, call.args)
           IN  IF Len(timeout) = 2
               THEN /\ curl.CONNECTTIMEOUT_MS = timeout[1] * 1000
                    /\ curl.TIMEOUT_MS = (timeout[1] + timeout[2]) * 1000
               ELSE curl.TIMEOUT_MS = timeout[1] * 1000

\* C16: the method configured on the handle is the uppercase form of the
\* method string the call was given.
C16_MethodUppercased ==
    "CUSTOMREQUEST" \in call.set
        => curl.CUSTOMREQUEST = Upper(call.args.method)

-----------------------------------------------------------------------------
(* _update_url_params applied on its own, once and again *)

MaxFields == 2

\* query fields: plain, blank value, no "=", percent-encoded space, "&" and
\* "%26" in the value
QueryFields ==
    { <<"a", "=", "1">>, <<"b", "=">>, <<"d">>, <<"k", "=", "9">>,
      <<"x", "=", "u", "%20", "v">>, <<"y", "=", "%26">>,
      <<"z", "=", "%2526">> }

FieldLists(n) == UNION { [1..k -> QueryFields] : k \in 1..n }

\* the fields joined by "&"
RECURSIVE JoinFields(_)
JoinFields(fields) ==
    IF fields = <<>> THEN <<>>
    ELSE fields[1] \o (IF Len(fields) > 1 THEN <<"&">> ELSE <<>>)
         \o JoinFields(Tail(fields))

UrlWithQuery(fields) == <<"http", "://", "h", "/", "?">> \o JoinFields(fields)

ParamsValues ==
    { <<(<< <<"k">>, <<"2">> >>)>>, <<(<< <<"c">>, <<"p", " ", "q">> >>)>> }

InitMerge ==
    /\ session = DefaultSession
    /\ curl = CurlInit
    /\ closed = FALSE
    /\ scope = ScopeOutside
    /\ call = NoCall
    /\ run = NoRun
    /\ \E f \in FieldLists(MaxFields), p \in ParamsValues :
          pure = [ op |-> "input", fields |-> f, url |-> UrlWithQuery(f),
                   params |-> p, out |-> <<>>, again |-> <<>> ]

\* _update_url_params(url, params) is called
update_url_params ==
    /\ pure.op = "input"
    /\ pure' = [pure EXCEPT !.op = "merged",
                   !.out = _update_url_params(pure.url, pure.params)]
    /\ UNCHANGED <<session, curl, closed, scope, call, run>>

\* _update_url_params(out, params) is called on the result, with the same
\* mapping
update_url_params_again ==
    /\ pure.op = "merged"
    /\ pure' = [pure EXCEPT !.op = "merged again",
                   !.again = _update_url_params(pure.out, pure.params)]
    /\ UNCHANGED <<session, curl, closed, scope, call, run>>

NextMerge == update_url_params \/ update_url_params_again

SpecMerge == InitMerge /\ [][NextMerge]_vars

\* the key of a query field: what precedes its first "="
RECURSIVE FieldKey(_)
FieldKey(field) ==
    IF field = <<>> \/ Head(field) = "=" THEN <<>>
    ELSE <<Head(field)>> \o FieldKey(Tail(field))

\* the fields of a query string, split at "&"
RECURSIVE SplitFields(_)
SplitFields(query) ==
    IF query = <<>> THEN <<>>
    ELSE LET amp == Find(query, "&", 1)
         IN  <<SubSeq(query, 1, amp - 1)>>
             \o SplitFields(SubSeq(query, amp + 1, Len(query)))

\* the query keys of a URL
QueryKeys(url) ==
    LET q == Find(url, "?", 1)
        fields == SplitFields(SubSeq(url, q + 1, Len(url)))
    IN  { FieldKey(fields[i]) : i \in 1..Len(fields) }

ParamsKeys(params) == { params[i][1] : i \in 1..Len(params) }

\* C17: merging p into the result of merging p gives the same URL as
\* merging p once, and every query key of the input URL that is not a key of
\* p is a query key of the result, blank and percent-encoded values
\* included.
C17_MergeIdempotentKeepsKeys ==
    pure.op = "merged again"
        => /\ pure.again = pure.out
           /\ \A i \in 1..Len(pure.fields) :
                 FieldKey(pure.fields[i]) \notin ParamsKeys(pure.params)
                    => FieldKey(pure.fields[i]) \in QueryKeys(pure.out)

-----------------------------------------------------------------------------
(* Two threads calling request() on one Session, and calls one at a time *)

ArgsRace == { [DefaultArgs EXCEPT !.url = u] : u \in Urls }

InitRace == InitWith(DefaultSession)

NextRace ==
    \E i \in Threads :
        \/ \E a \in ArgsRace : begin(i, a)
        \/ attach_sinks(i)
        \/ \E t \in Serves(curl.URL) : perform(i, t)
        \/ respond(i)

SpecRace == InitRace /\ [][NextRace]_vars

\* what the server of a URL answers: the body and the final header list
ServedBody(url) == <<"body of", url[3]>>

ServedHeaders(url) == <<(<<"h", ":", " ", url[3]>>)>>

\* a returned Response that carries a body or headers other than those its
\* own URL's server answers
Foreign(c) ==
    /\ c.kind = "returned"
    /\ \/ c.rsp.content # ServedBody(c.url)
       \/ c.rsp.headers # ServedHeaders(c.url)

\* C19: with two unsynchronized request() calls on one Session, a returned
\* Response carries content or headers that are not its own request's only
\* when some perform executed with a URL or a sink that another call had
\* set on the handle; the witness is the reachable interleaving in which a
\* Response carries the body and the headers of the other call's URL.
C19_ForeignOnlyByCrossedPerform ==
    (\E i \in Threads : Foreign(run.calls[i])) => run.crossed

C19_Witness ==
    \E i \in Threads, j \in Threads :
        /\ i # j
        /\ run.calls[i].kind = "returned"
        /\ run.calls[j].url # <<>>
        /\ run.calls[j].url # run.calls[i].url
        /\ run.calls[i].rsp.content = ServedBody(run.calls[j].url)
        /\ run.calls[i].rsp.headers = ServedHeaders(run.calls[j].url)
        /\ run.calls[i].performed_with.URL = run.calls[j].url
        /\ run.crossed

\* no other thread is inside request()
Alone(i) == \A j \in Threads \ {i} : run.calls[j].pc = "idle"

InitSequential == InitWith(DefaultSession)

NextSequential ==
    \E i \in Threads :
        \/ Alone(i) /\ \E a \in ArgsRace : begin(i, a)
        \/ attach_sinks(i)
        \/ \E t \in Serves(curl.URL) : perform(i, t)
        \/ respond(i)

SpecSequential == InitSequential /\ [][NextSequential]_vars

\* the header list the header lines of a transport's answer parse into
HeadersOf(t) == ParseHeaderLines(t.header_lines, <<(<<>>), <<>>>>)[1]

\* C20: under sequential use every returned Response carries as content
\* and as headers exactly what the transport wrote during that call's own
\* perform: nothing an earlier call's perform wrote, successful or failed.
C20_OwnBytesOnly ==
    \A i \in Threads :
        run.calls[i].kind = "returned"
            => /\ run.calls[i].rsp.content = run.calls[i].transport.content
               /\ run.calls[i].rsp.headers = HeadersOf(run.calls[i].transport)

C20_Witness ==
    \E i \in Threads :
        /\ run.calls[i].kind = "returned"
        /\ run.calls[i].buffer = 3
        /\ run.buffers[1] # <<>> /\ run.buffers[1][1] = "part of"
        /\ run.buffers[2] # <<>> /\ run.buffers[2][1] = "body of"
        /\ run.header_buffers[2] # <<>>
        /\ run.calls[i].rsp.content # <<>>
        /\ run.calls[i].rsp.headers # <<>>

====
